---- MODULE Spec2Model ----
(***************************************************************************)
(* The call-spacing queue of example-input.processors.ts: one module-level *)
(* cursor nextAvailableTime shared by every ExampleInputProcessor, the     *)
(* synchronous reservation step of processInput, the timer-based sleep     *)
(* (setTimeout as Node runs it), and resetRateLimitTimestamp.  Time is in  *)
(* milliseconds, as Date.now() reads it.                                   *)
(***************************************************************************)
EXTENDS Integers, Sequences, FiniteSets

VARIABLES
    nextAvailableTime,  \* the module-level cursor (line 12)
    clock,              \* what Date.now() returns
    procs,              \* the constructed ExampleInputProcessor instances
    calls,              \* one record per processInput call, in reservation order
    returns,            \* the calls that returned to their caller, in that order
    resets,             \* how many times resetRateLimitTimestamp() ran
    ticks,              \* how many times the clock advanced
    stepOut,            \* what the calls of processOutputStep were given and returned
    abandoned           \* the calls whose caller stopped waiting for the promise

vars ==
    <<nextAvailableTime, clock, procs, calls, returns, resets, ticks, stepOut,
      abandoned>>

(* ------------------------------ bounds --------------------------------- *)
MaxProcs == 2
MaxCalls == 3
MaxResets == 1
MaxTicks == 2
\* Math.random() is drawn from { n / RandDen : n \in 0 .. RandDen - 1 }
RandDen == 2
MaxOutputSteps == 1
\* how many callers abandon their wait
MaxAbandoned == 1

\* what Date.now() returns when the module is loaded (any instant after the epoch)
StartTime == 1

\* how far one clock advance may go
Steps == {1, 2000}

\* the message lists handed to the processors
MessageLists == { <<"m1", "m2">>, <<"m2", "m1">> }

\* the options objects handed to the constructor; a field left out is undefined
OptionChoices ==
    { <<>>,
      [delayMs |-> 2000, jitterMs |-> 0],
      [delayMs |-> 2, jitterMs |-> 2],
      [jitterMs |-> 0],
      [delayMs |-> -1, jitterMs |-> 0],
      [delayMs |-> 0, jitterMs |-> -1] }

(* ------------------------- program constants --------------------------- *)
DefaultDelayMs == 500
DefaultJitterMs == 1000

\* the longest delay setTimeout accepts (2^31 - 1 ms)
TimeoutMax == 2147483647

\* the timers run on the event loop's own millisecond clock, which is up to one
\* millisecond ahead of Date.now()
TimerSkew == 1

(* ----------------------------- helpers --------------------------------- *)
\* Math.max(a, b)
Max(a, b) == IF a >= b THEN a ELSE b

\* options.f ?? dflt
Coalesce(options, f, dflt) == IF f \in DOMAIN options THEN options[f] ELSE dflt

\* constructor, with the defaults the documentation comments announce
ConstructorDocDefaults(options) ==
    [ delayMs  |-> Coalesce(options, "delayMs", 2000),
      jitterMs |-> Coalesce(options, "jitterMs", 0),
      options  |-> options ]

\* constructor(options = {}): the two private fields (options kept for reference)
Constructor(options) ==
    [ delayMs  |-> Coalesce(options, "delayMs", DefaultDelayMs),
      jitterMs |-> Coalesce(options, "jitterMs", DefaultJitterMs),
      options  |-> options ]

\* getJitter drawing from 1 .. jitterMs instead of 0 .. jitterMs - 1
getJitterOneBased(jitterMs, n) ==
    IF jitterMs <= 0 THEN 0 ELSE (n * jitterMs) \div RandDen + 1

\* getJitter(): Math.floor(Math.random() * jitterMs), Math.random() = n / RandDen
getJitter(jitterMs, n) ==
    IF jitterMs <= 0 THEN 0 ELSE (n * jitterMs) \div RandDen

\* the effective delay without the base delay
effectiveDelayJitterOnly(p, n) == getJitter(p.jitterMs, n)

\* effectiveDelay = this.delayMs + this.getJitter()
effectiveDelay(p, n) == p.delayMs + getJitter(p.jitterMs, n)

\* the start time computed without looking at the cursor
myStartTimeNoQueue(now, cursor) == now

\* myStartTime = Math.max(now, nextAvailableTime)
myStartTime(now, cursor) == Max(now, cursor)

\* the reservation written without the delay
reserveNoDelay(start, delay) == start

\* the value written to the cursor: myStartTime + effectiveDelay
reserve(start, delay) == start + delay

\* the wait computed against the slot after one's own
waitTimeNextSlot(start, now, delay) == start + delay - now

\* waitTime = myStartTime - now
waitTime(start, now, delay) == start - now

\* setTimeout(resolve, ms) as called by sleep(ms), ms > 0: a delay above
\* TimeoutMax is replaced by 1 ms
setTimeoutDelay(ms) == IF ms > TimeoutMax THEN 1 ELSE ms

\* a return that loses the first message
returnMessagesTail(messages) == Tail(messages)

\* return messages (processInput, line 104)
returnMessages(messages) == messages

\* processOutputStep returning the list reversed
processOutputStepReversed(messages) ==
    [k \in DOMAIN messages |-> messages[Len(messages) + 1 - k]]

\* ExampleOutputProcessor.processOutputStep({ messages }): return messages
processOutputStep(messages) == messages

(* ------------------------------ state ---------------------------------- *)
Init ==
    /\ nextAvailableTime = 0
    /\ clock = StartTime
    /\ procs = <<>>
    /\ calls = <<>>
    /\ returns = <<>>
    /\ resets = 0
    /\ ticks = 0
    /\ stepOut = <<>>
    /\ abandoned = {}

\* the calls that have returned
Returned == { returns[k].call : k \in DOMAIN returns }

\* the calls suspended in sleep()
Sleeping == DOMAIN calls \ Returned

\* the delay of the timer of call c
TimerDelay(c) == setTimeoutDelay(calls[c].wait)

\* the earliest instant at which the timer of call c expires: the runtime stamps
\* the timer when setTimeout is called, at the now of line 86 or later
Deadline(c) == calls[c].now + TimerDelay(c)

\* the timer of call c can run when the clock is at instant t: seen through
\* Date.now() a timer runs up to TimerSkew before its expiry, and never earlier
DueAt(c, t) == t + TimerSkew >= Deadline(c)

\* the timers of one delay are kept in one list, in the order they were set;
\* c is the first pending timer of its list
HeadOfList(c) ==
    \A o \in Sleeping : TimerDelay(o) = TimerDelay(c) => c <= o

\* the instants at which a pending timer can first run and can first expire
TimerInstants ==
    {Deadline(c) - TimerSkew : c \in Sleeping} \cup {Deadline(c) : c \in Sleeping}

(* ----------------------------- actions --------------------------------- *)
\* new ExampleInputProcessor(options)
Construct(options) ==
    /\ Len(procs) < MaxProcs
    /\ procs' = Append(procs, Constructor(options))
    /\ UNCHANGED <<nextAvailableTime, clock, calls, returns, resets, ticks, stepOut, abandoned>>

\* processInput on instance i, up to its first suspension point: lines 86-102.
\* n is the numerator of this call's Math.random() draw.
ProcessInput(i, n, messages) ==
    /\ Len(calls) < MaxCalls
    /\ LET p     == procs[i]
           now   == clock
           jitter == getJitter(p.jitterMs, n)
           delay == effectiveDelay(p, n)
           start == myStartTime(now, nextAvailableTime)
           next  == reserve(start, delay)
           wait  == waitTime(start, now, delay)
           c     == Len(calls) + 1
       IN  /\ nextAvailableTime' = next
           /\ calls' = Append(calls,
                  [ proc |-> i, now |-> now, jitter |-> jitter, delay |-> delay,
                    seen |-> nextAvailableTime, start |-> start,
                    written |-> next, wait |-> wait,
                    slept |-> (wait > 0), epoch |-> resets,
                    messages |-> messages ])
           /\ returns' = IF wait > 0 THEN returns
                         ELSE Append(returns,
                                  [ call |-> c, at |-> now,
                                    messages |-> returnMessages(messages) ])
    /\ UNCHANGED <<clock, procs, resets, ticks, stepOut, abandoned>>

\* a sleep whose promise is never resolved
ResumeNeverResolves(c) ==
    /\ FALSE
    /\ UNCHANGED vars

\* the timer of sleep(ms) fires and the call returns its messages: lines 101-104,
\* 117-119.  The callback runs no earlier than DueAt allows, possibly much
\* later.  Timers of one delay run in the order they were set.  Which of the
\* timers of different delays runs first depends on the instants at which the
\* runtime stamped them, which the program does not read: any of them may.
\* The call returns whether or not its caller still waits for it.
Resume(c) ==
    /\ c \in Sleeping
    /\ DueAt(c, clock)
    /\ HeadOfList(c)
    /\ returns' = Append(returns,
                      [ call |-> c, at |-> clock,
                        messages |-> returnMessages(calls[c].messages) ])
    /\ UNCHANGED <<nextAvailableTime, clock, procs, calls, resets, ticks, stepOut, abandoned>>

\* a reset that leaves the cursor where it is
resetKeepsCursor ==
    /\ resets < MaxResets
    /\ resets' = resets + 1
    /\ UNCHANGED <<nextAvailableTime, clock, procs, calls, returns, ticks, stepOut, abandoned>>

\* resetRateLimitTimestamp(): lines 126-128
resetRateLimitTimestamp ==
    /\ resets < MaxResets
    /\ nextAvailableTime' = 0
    /\ resets' = resets + 1
    /\ UNCHANGED <<clock, procs, calls, returns, ticks, stepOut, abandoned>>

\* the caller of the sleeping call c stops waiting for the promise of
\* processInput.  sleep() offers nothing to cancel: the timer stays set, the
\* cursor keeps the reservation, and the call runs on to line 104.
Abandon(c) ==
    /\ c \in Sleeping
    /\ c \notin abandoned
    /\ Cardinality(abandoned) < MaxAbandoned
    /\ abandoned' = abandoned \cup {c}
    /\ UNCHANGED <<nextAvailableTime, clock, procs, calls, returns, resets, ticks, stepOut>>

\* time passes: to an instant of a pending timer, or by one of Steps
Tick(t) ==
    /\ ticks < MaxTicks
    /\ t > clock
    /\ clock' = t
    /\ ticks' = ticks + 1
    /\ UNCHANGED <<nextAvailableTime, procs, calls, returns, resets, stepOut, abandoned>>

\* ExampleOutputProcessor.processOutputStep: lines 7-9 of
\* example-output.processors.ts; the processor keeps no state
ProcessOutputStep(messages) ==
    /\ Len(stepOut) < MaxOutputSteps
    /\ stepOut' = Append(stepOut,
                      [given |-> messages, returned |-> processOutputStep(messages)])
    /\ UNCHANGED <<nextAvailableTime, clock, procs, calls, returns, resets, ticks, abandoned>>

\* the message list the agent hands over in Spec; FrameSpec varies it
AgentMessages == { <<"m1", "m2">> }

Next ==
    \/ \E options \in OptionChoices : Construct(options)
    \/ \E i \in DOMAIN procs, n \in 0 .. RandDen - 1, messages \in AgentMessages :
           ProcessInput(i, n, messages)
    \/ \E c \in DOMAIN calls : Resume(c)
    \/ resetRateLimitTimestamp
    \/ \E t \in {clock + s : s \in Steps} \cup TimerInstants : Tick(t)

Spec == Init /\ [][Next]_vars

(* ------------------------ reading the call log ------------------------- *)
Proc(c) == procs[calls[c].proc]

\* no resetRateLimitTimestamp() ran between the reservations of calls a and b
SameEpoch(a, b) == calls[a].epoch = calls[b].epoch

\* call c is the first reservation after a resetRateLimitTimestamp()
FirstAfterReset(c) ==
    /\ calls[c].epoch >= 1
    /\ (c = 1 \/ calls[c - 1].epoch < calls[c].epoch)

\* the position and the instant at which call c returned to its caller
ReturnIndex(c) == CHOOSE k \in DOMAIN returns : returns[k].call = c
ReturnedAt(c) == returns[ReturnIndex(c)].at

(* ------------------------------ claims --------------------------------- *)

\* C1 -- Spacing invariant: for consecutive reservations with no reset between
\* them, the later granted start time is at least the earlier granted start
\* time plus the delayMs of the earlier call, whatever the clock read.
C1_Spacing ==
    \A c \in 1 .. Len(calls) - 1 :
        SameEpoch(c, c + 1) =>
            calls[c + 1].start >= calls[c].start + Proc(c).delayMs

\* three reservations in one epoch, made at different instants, the last two
\* pushed back by the queue
C1_Witness ==
    /\ Len(calls) = 3
    /\ SameEpoch(1, 3)
    /\ calls[2].now < calls[3].now
    /\ calls[2].start > calls[2].now
    /\ calls[3].start > calls[3].now
    /\ Proc(1).delayMs > 0

\* C2 -- Atomic reservation: a suspended call has already written the cursor;
\* every reservation reads exactly what the reservation before it wrote (the
\* cursor always holds the last reservation's value, no update is lost), on one
\* or several instances; and among calls of instances with delayMs > 0 no two
\* are granted the same start time.
C2_AtomicReservation ==
    /\ \A c \in 2 .. Len(calls) :
           SameEpoch(c - 1, c) => calls[c].seen = calls[c - 1].written
    /\ (Len(calls) > 0 /\ calls[Len(calls)].epoch = resets) =>
           nextAvailableTime = calls[Len(calls)].written
    /\ \A a, b \in DOMAIN calls :
           ( /\ a < b
             /\ SameEpoch(a, b)
             /\ \A c \in a .. b : Proc(c).delayMs > 0 )
           => calls[a].start # calls[b].start

\* three concurrent calls on two different instances, two of them suspended
C2_Witness ==
    /\ Len(calls) = 3
    /\ SameEpoch(1, 3)
    /\ calls[1].proc # calls[2].proc
    /\ calls[1].now = calls[3].now
    /\ {2, 3} \subseteq Sleeping
    /\ \A c \in 1 .. 3 : Proc(c).delayMs > 0

\* C3 -- Simultaneous arrivals queue up: consecutive reservations made at the
\* same instant t0 by processors with jitterMs = 0 and one delayMs, the cursor
\* being <= t0 before the first, are granted t0 + (k-1)*delayMs and wait
\* (k-1)*delayMs, k counting from 1.
C3_SimultaneousQueue ==
    \A a, b \in DOMAIN calls :
        ( /\ a <= b
          /\ SameEpoch(a, b)
          /\ calls[a].seen <= calls[a].now
          /\ \A c \in a .. b :
                 /\ calls[c].now = calls[a].now
                 /\ Proc(c).jitterMs = 0
                 /\ Proc(c).delayMs = Proc(a).delayMs )
        => /\ calls[b].start = calls[a].now + (b - a) * Proc(a).delayMs
           /\ calls[b].wait = (b - a) * Proc(a).delayMs

\* C4 -- Operations start spaced apart: with no reset in the run, calls return
\* to their callers in reservation order, none before its granted start time,
\* and two returns are at least the delayMs of the earlier call apart.
C4_ReturnsSpaced ==
    resets = 0 =>
        /\ \A c \in Returned : ReturnedAt(c) >= calls[c].start
        /\ \A a, b \in Returned :
               a < b =>
                   /\ ReturnIndex(a) < ReturnIndex(b)
                   /\ ReturnedAt(b) - ReturnedAt(a) >= Proc(a).delayMs

\* C5 -- Non-decreasing cursor: every processInput call leaves the cursor at
\* least as large as it found it.
C5_CursorNonDecreasing ==
    \A c \in DOMAIN calls : calls[c].written >= calls[c].seen

\* C6 -- Negative configuration is rejected: no processor with a negative
\* delayMs or a negative jitterMs exists.
C6_NegativeRejected ==
    \A i \in DOMAIN procs : procs[i].delayMs >= 0 /\ procs[i].jitterMs >= 0

\* C7 -- Wait duration: a call made at time now with cursor c waits exactly
\* max(0, c - now); it suspends only when c > now, and when c <= now it
\* returns at once, at the instant of the call.
C7_WaitDuration ==
    \A c \in DOMAIN calls :
        /\ calls[c].wait = Max(0, calls[c].seen - calls[c].now)
        /\ calls[c].slept <=> calls[c].seen > calls[c].now
        /\ calls[c].seen <= calls[c].now =>
               /\ calls[c].wait = 0
               /\ c \in Returned
               /\ ReturnedAt(c) = calls[c].now

\* a third call made after the backlog of two earlier reservations elapsed,
\* the second of which had to wait
C7_Witness ==
    /\ Len(calls) = 3
    /\ SameEpoch(1, 3)
    /\ calls[2].wait > 0
    /\ calls[3].seen > 0
    /\ calls[3].seen <= calls[3].now
    /\ ~calls[3].slept

\* C8 -- Reset clears the backlog: once resetRateLimitTimestamp() ran and no
\* call reserved since, the cursor is 0; the next call is granted start time
\* now, waits 0 and leaves the cursor at now + delayMs + jitter.
C8_ResetClearsBacklog ==
    /\ (resets >= 1 /\ (Len(calls) = 0 \/ calls[Len(calls)].epoch < resets)) =>
           nextAvailableTime = 0
    /\ \A c \in DOMAIN calls :
           FirstAfterReset(c) =>
               /\ calls[c].seen = 0
               /\ calls[c].start = calls[c].now
               /\ calls[c].wait = 0
               /\ ~calls[c].slept
               /\ calls[c].written =
                      calls[c].now + Proc(c).delayMs + calls[c].jitter

\* a reset ran while a reserved slot lay in the future, and a call followed
C8_Witness ==
    \E c \in 2 .. Len(calls) :
        /\ FirstAfterReset(c)
        /\ calls[c - 1].written > calls[c].now
        /\ calls[c].now > 0

\* C9 -- Jitter bound: a reservation advances the cursor to myStartTime + d
\* with delayMs <= d < delayMs + jitterMs when jitterMs > 0 and d = delayMs
\* when jitterMs = 0; the jitter is never negative.
C9_JitterBound ==
    \A c \in DOMAIN calls :
        LET d == calls[c].written - calls[c].start
        IN  /\ Proc(c).jitterMs > 0 =>
                   /\ Proc(c).delayMs <= d
                   /\ d < Proc(c).delayMs + Proc(c).jitterMs
            /\ Proc(c).jitterMs = 0 => d = Proc(c).delayMs
            /\ calls[c].jitter >= 0
            /\ d = Proc(c).delayMs + calls[c].jitter

\* two calls of one processor drew different jitters, one of them the largest
\* value below jitterMs, and a processor without jitter reserved as well
C9_Witness ==
    /\ \E a, b \in DOMAIN calls :
           /\ calls[a].proc = calls[b].proc
           /\ calls[a].jitter = 0
           /\ calls[b].jitter = Proc(b).jitterMs - 1
           /\ calls[b].jitter > 0
    /\ \E c \in DOMAIN calls : Proc(c).jitterMs = 0

\* C10 -- Defaults: a processor constructed without delayMs uses 500, one
\* constructed without jitterMs uses 1000, and every reservation of a
\* processor constructed with no options advances the cursor by at least 500
\* and by less than 1500.
C10_Defaults ==
    /\ \A i \in DOMAIN procs :
           /\ "delayMs" \notin DOMAIN procs[i].options => procs[i].delayMs = 500
           /\ "jitterMs" \notin DOMAIN procs[i].options => procs[i].jitterMs = 1000
    /\ \A c \in DOMAIN calls :
           Proc(c).options = <<>> =>
               /\ calls[c].written - calls[c].start >= 500
               /\ calls[c].written - calls[c].start < 1500

\* a processor built with no options reserved twice, with and without jitter,
\* and a processor built with only jitterMs given exists
C10_Witness ==
    /\ \E a, b \in DOMAIN calls :
           /\ calls[a].proc = calls[b].proc
           /\ Proc(a).options = <<>>
           /\ calls[a].written - calls[a].start = 500
           /\ calls[b].written - calls[b].start > 500
    /\ \E i \in DOMAIN procs : DOMAIN procs[i].options = {"jitterMs"}

(* ------------------- per-instance views of the call log ---------------- *)
\* the indices of the calls made on instance i, in reservation order
RECURSIVE CallsOfUpTo(_, _)
CallsOfUpTo(i, k) ==
    IF k = 0 THEN <<>>
    ELSE IF calls[k].proc = i THEN Append(CallsOfUpTo(i, k - 1), k)
         ELSE CallsOfUpTo(i, k - 1)

CallsOf(i) == CallsOfUpTo(i, Len(calls))

\* instances i and j were constructed with the same options, jitterMs given as 0
SameConfigNoJitter(i, j) ==
    /\ procs[i].options = procs[j].options
    /\ "jitterMs" \in DOMAIN procs[i].options
    /\ procs[i].options.jitterMs = 0

\* C11 (as stated) -- Determinism across serializers: two instances with
\* identical configuration and jitterMs = 0, given the same number of calls at
\* the same times, show the same sequence of wait durations, also when their
\* calls are interleaved in one process.
C11_SameWaitSequences ==
    \A i, j \in DOMAIN procs :
        ( /\ i # j
          /\ SameConfigNoJitter(i, j)
          /\ Len(CallsOf(i)) = Len(CallsOf(j))
          /\ \A k \in DOMAIN CallsOf(i) :
                 calls[CallsOf(i)[k]].now = calls[CallsOf(j)[k]].now )
        => \A k \in DOMAIN CallsOf(i) :
               calls[CallsOf(i)[k]].wait = calls[CallsOf(j)[k]].wait

\* the calls reserved in epoch e (after e resets), their times and their waits
EpochCalls(e) == { c \in DOMAIN calls : calls[c].epoch = e }
EpochFirst(e) == CHOOSE c \in EpochCalls(e) : \A d \in EpochCalls(e) : c <= d
EpochTimes(e) ==
    [k \in 1 .. Cardinality(EpochCalls(e)) |-> calls[EpochFirst(e) + k - 1].now]
EpochWaits(e) ==
    [k \in 1 .. Cardinality(EpochCalls(e)) |-> calls[EpochFirst(e) + k - 1].wait]

\* instance i is the only user of the cursor in epoch e: the epoch starts from
\* cursor 0, as a fresh process does, and every reservation in it is made by i
Alone(i, e) ==
    /\ EpochCalls(e) # {}
    /\ \A c \in EpochCalls(e) : calls[c].proc = i

\* the start times a serializer of delay d and no jitter grants to calls made at
\* times, from a cursor not after the first call: s[1] = t[1] and
\* s[k] = max(t[k], s[k-1] + d)
RECURSIVE SoloStarts(_, _)
SoloStarts(d, times) ==
    IF times = <<>> THEN <<>>
    ELSE LET k    == Len(times)
             prev == SoloStarts(d, SubSeq(times, 1, k - 1))
         IN  Append(prev, IF k = 1 THEN times[k]
                          ELSE Max(times[k], prev[k - 1] + d))

\* the wait durations that go with SoloStarts
SoloWaits(d, times) ==
    [k \in DOMAIN times |-> SoloStarts(d, times)[k] - times[k]]

\* C11 (amended) -- an instance with jitterMs = 0 that is the only user of the
\* cursor shows the wait sequence SoloWaits(delayMs, call times), a function of
\* its configuration and of the call times alone, so two instances of identical
\* configuration given the same calls at the same times, each while it alone
\* uses the cursor, show identical wait sequences.  Interleaved in one process
\* they share the cursor: of two calls made one right after the other at one
\* instant by two such instances the second waits delayMs longer than the
\* first (or 0), so their waits differ whenever delayMs > 0.
C11_SoloWaitsDetermined ==
    /\ \A i \in DOMAIN procs, e \in 0 .. resets :
           (procs[i].jitterMs = 0 /\ Alone(i, e)) =>
               EpochWaits(e) = SoloWaits(procs[i].delayMs, EpochTimes(e))
    /\ \A i, j \in DOMAIN procs, e, f \in 0 .. resets :
           ( /\ SameConfigNoJitter(i, j)
             /\ Alone(i, e)
             /\ Alone(j, f)
             /\ EpochTimes(e) = EpochTimes(f) )
           => EpochWaits(e) = EpochWaits(f)
    /\ \A a \in 1 .. Len(calls) - 1 :
           ( /\ calls[a].proc # calls[a + 1].proc
             /\ SameConfigNoJitter(calls[a].proc, calls[a + 1].proc)
             /\ SameEpoch(a, a + 1)
             /\ calls[a].now = calls[a + 1].now )
           => /\ calls[a + 1].wait = Max(0, calls[a].wait + Proc(a).delayMs)
              /\ Proc(a).delayMs > 0 => calls[a + 1].wait # calls[a].wait

\* two different instances of one configuration (jitterMs = 0, delayMs > 0)
\* each had the cursor to itself, one before and one after a reset; the first
\* made two calls at different times and the second of them had to wait
C11_Witness ==
    \E i, j \in DOMAIN procs :
        /\ i # j
        /\ SameConfigNoJitter(i, j)
        /\ procs[i].delayMs > 0
        /\ Alone(i, 0)
        /\ resets = 1
        /\ Alone(j, 1)
        /\ Len(EpochTimes(0)) = 2
        /\ EpochTimes(0)[1] < EpochTimes(0)[2]
        /\ EpochWaits(0)[2] > 0

(* --------------- the specification with varying message lists ---------- *)
\* every operation of both processors, the message lists drawn from
\* MessageLists; resetRateLimitTimestamp takes no part in it
FrameNext ==
    \/ \E options \in OptionChoices : Construct(options)
    \/ \E i \in DOMAIN procs, n \in 0 .. RandDen - 1, messages \in MessageLists :
           ProcessInput(i, n, messages)
    \/ \E c \in DOMAIN calls : Resume(c)
    \/ \E t \in TimerInstants : Tick(t)
    \/ \E messages \in MessageLists : ProcessOutputStep(messages)

FrameSpec == Init /\ [][FrameNext]_vars

(* ------------------------------ claims, continued ---------------------- *)

\* what C12 says of every state: each call that returned handed back the very
\* list it was given, each instance still holds the delayMs and jitterMs its
\* constructor stored, and processOutputStep handed back what it was given
C12_FrameState ==
    /\ \A k \in DOMAIN returns :
           returns[k].messages = calls[returns[k].call].messages
    /\ \A i \in DOMAIN procs : procs[i] = Constructor(procs[i].options)
    /\ \A k \in DOMAIN stepOut : stepOut[k].returned = stepOut[k].given

\* what C12 says of every step: a step of a processInput call (its reservation
\* or its return) changes no instance, no earlier call record and no earlier
\* return, and only the reservation writes the cursor; a processOutputStep
\* changes nothing of the queue at all
C12_FrameStep ==
    /\ Len(calls') > Len(calls) =>
           /\ procs' = procs
           /\ SubSeq(calls', 1, Len(calls)) = calls
           /\ SubSeq(returns', 1, Len(returns)) = returns
           /\ UNCHANGED <<clock, resets, stepOut, abandoned>>
    /\ (Len(returns') > Len(returns) /\ calls' = calls) =>
           /\ SubSeq(returns', 1, Len(returns)) = returns
           /\ UNCHANGED <<nextAvailableTime, procs, clock, resets, stepOut, abandoned>>
    /\ stepOut' # stepOut =>
           UNCHANGED <<nextAvailableTime, procs, calls, returns, clock, resets>>

\* C12 -- Frame: processInput changes nothing but the shared cursor: it returns
\* exactly the message list it was given, leaves the instance's delayMs and
\* jitterMs unchanged, and processOutputStep likewise returns its messages
\* unchanged and touches no state.
C12_Frame == [](C12_FrameState) /\ [][C12_FrameStep]_vars

\* a call that slept and a call that did not both returned, with different
\* message lists, and processOutputStep ran
C12_Witness ==
    /\ \E a, b \in Returned :
           /\ calls[a].slept
           /\ ~calls[b].slept
           /\ calls[a].messages # calls[b].messages
           /\ returns[ReturnIndex(a)].messages = <<"m2", "m1">>
    /\ Len(stepOut) > 0

\* |a - b|
Distance(a, b) == IF a >= b THEN a - b ELSE b - a

\* C13 -- Reset race: the call that follows a resetRateLimitTimestamp() is
\* granted start time now and proceeds without waiting, whoever still sleeps;
\* and as long as no reset ran, no two granted start times are less than
\* delayMs (of the earlier of the two calls) apart.
C13_ResetRace ==
    /\ \A c \in DOMAIN calls :
           FirstAfterReset(c) =>
               /\ calls[c].start = calls[c].now
               /\ ~calls[c].slept
               /\ c \in Returned
    /\ resets = 0 =>
           \A a, b \in DOMAIN calls :
               a < b =>
                   Distance(calls[a].start, calls[b].start) >= Proc(a).delayMs

\* the race itself: a reset ran while call a slept towards its future slot, and
\* the next call was granted now, less than delayMs after (or before) a's slot,
\* every instance having a non-negative delayMs and jitterMs
C13_RaceReached ==
    \E a \in Sleeping :
        /\ a < Len(calls)
        /\ FirstAfterReset(a + 1)
        /\ calls[a + 1].start = calls[a + 1].now
        /\ (a + 1) \in Returned
        /\ Distance(calls[a].start, calls[a + 1].start) < Proc(a).delayMs
        /\ \A i \in DOMAIN procs : procs[i].delayMs >= 0 /\ procs[i].jitterMs >= 0

(* ------------------- the specification with fair timers ---------------- *)
\* time reaches an instant of a pending timer (no budget: time always advances)
Advance(t) ==
    /\ t \in TimerInstants
    /\ t > clock
    /\ clock' = t
    /\ UNCHANGED <<nextAvailableTime, procs, calls, returns, resets, ticks, stepOut, abandoned>>

LiveNext ==
    \/ \E options \in OptionChoices : Construct(options)
    \/ \E i \in DOMAIN procs, n \in 0 .. RandDen - 1, messages \in AgentMessages :
           ProcessInput(i, n, messages)
    \/ \E c \in DOMAIN calls : Resume(c)
    \/ resetRateLimitTimestamp
    \/ \E t \in TimerInstants : Advance(t)
    \/ \E c \in DOMAIN calls : Abandon(c)

\* the event loop runs the callback of every timer that is due, and time goes on
\* to the expiry of the timers still pending; nothing is assumed of the callers
LiveSpec ==
    /\ Init
    /\ [][LiveNext]_vars
    /\ WF_vars(\E c \in DOMAIN calls : Resume(c))
    /\ WF_vars(\E t \in TimerInstants : Advance(t))

\* a suspended call sleeps on a timer of its own, asked to run no later than
\* its own granted start time (a delay above TimeoutMax makes it sooner)
C14_OwnSlotOnly ==
    \A c \in Sleeping :
        /\ calls[c].slept
        /\ Deadline(c) <= calls[c].start

\* whatever any caller does (a new reservation, a reset, a return, an abandoned
\* wait), the reservation and the timer of a suspended call stay as they were
\* set, and a call whose timer can run stays able to run until it returns
C14_NothingBlocks ==
    \A c \in Sleeping :
        /\ calls'[c] = calls[c]
        /\ (c \in Sleeping' /\ DueAt(c, clock) /\ HeadOfList(c)) =>
               (DueAt(c, clock) /\ HeadOfList(c))'

\* C14 -- Every call completes: time advancing and due timers firing, and
\* nothing assumed of the callers, every processInput call eventually returns
\* with the messages it was given, also a call whose caller abandoned the wait
\* and every call made after it; no call waits for more than its own reserved
\* slot, and no caller can extend or block the wait of another.
C14_EveryCallCompletes ==
    /\ [](C14_OwnSlotOnly)
    /\ [][C14_NothingBlocks]_vars
    /\ \A c \in 1 .. MaxCalls :
           [](c \in DOMAIN calls =>
                  <>(c \in Returned /\
                     returns[ReturnIndex(c)].messages = calls[c].messages))

\* three concurrent calls on instances of non-negative delayMs and jitterMs
\* have all returned; two of them slept, the caller of the first sleeper
\* abandoned its wait and the later caller waited behind it all the same
C14_Witness ==
    /\ Len(calls) = MaxCalls
    /\ Returned = DOMAIN calls
    /\ Cardinality({c \in DOMAIN calls : calls[c].slept}) >= 2
    /\ \A c \in DOMAIN calls : calls[c].now = calls[1].now
    /\ \E a \in abandoned, c \in DOMAIN calls :
           /\ a < c
           /\ calls[c].slept
           /\ calls[c].start >= calls[a].start + Proc(a).delayMs
    /\ \A i \in DOMAIN procs : procs[i].delayMs >= 0 /\ procs[i].jitterMs >= 0

====
